---- MODULE Spec2Model ----
(***************************************************************************)
(* Scrape cycles of the RethinkDB prometheus exporter                      *)
(* (exporter/collect.go): Collect, collectRethinkStats, processStat and    *)
(* the per-kind emitters, together with the enrichment goroutines started  *)
(* through the errgroup.                                                   *)
(*                                                                         *)
(* Every invocation of Collect has its own locals (errcount, stat, cur,    *)
(* wg) and its own channel; the exporter's fields are shared by all of     *)
(* them.  Spec has one invocation; SpecTwice runs a second one after the   *)
(* first over the same database content, SpecConcurrent runs two at once.  *)
(*                                                                         *)
(* The database driver is the environment.  Run either fails or returns a  *)
(* cursor; every cur.Next call either decodes a row and returns true, or   *)
(* returns false (end of the result set, or a read error that cur.Err then *)
(* reports); cur.Err may also report an error after Next returned true,    *)
(* which is the case the loop body tests for.  A table lookup either fails *)
(* or returns a sequence of document count estimates.  In SpecHang a call  *)
(* may also never return.                                                  *)
(*                                                                         *)
(* ch is the sequence of samples the consumer of the channel has received, *)
(* in the order of the sends.  The sends of one emitter are consecutive.   *)
(***************************************************************************)
EXTENDS Integers, Sequences, FiniteSets, TLC

\* ---------------------------------------------------------------- bounds
\* rows a cursor delivers in one cycle
MaxRecords == 3
\* largest elapsed time reported by time.Since
MaxElapsed == 1
\* rows a cursor delivers in one cycle of SpecTwice
MaxRecordsTwice == 2
\* rows a cursor delivers in one cycle of SpecConcurrent
MaxRecordsConcurrent == 1
\* rows a cursor delivers in one cycle of SpecLive and SpecHang
MaxRecordsLive == 2
\* rows a cursor delivers in one cycle of SpecDecode
MaxRecordsDecode == 2

\* invocations of Collect
Cycles == {1, 2}

\* ------------------------------------------------------------ data model
readOperation == "read"
writtenOperation == "written"

queryEngine(cc, qps, rd, wr) ==
    [ClientConnections |-> cc, QPS |-> qps,
     ReadDocsPerSec |-> rd, WrittenDocsPerSec |-> wr]

storageEngine(cache, rd, wr, data) ==
    [InUseBytes |-> cache, ReadBytesPerSec |-> rd,
     WrittenBytesPerSec |-> wr, DataBytes |-> data]

Stat(id, server, db, table, qe, se) ==
    [ID |-> id, Server |-> server, Database |-> db, Table |-> table,
     QueryEngine |-> qe, StorageEngine |-> se]

\* the zero value of `var stat stat`
ZeroStat == Stat(<< >>, "", "", "", queryEngine(0, 0, 0, 0), storageEngine(0, 0, 0, 0))

\* rows of the stats system table the cursor can deliver; every counter of a
\* row has its own value, so that a sample carrying the wrong counter shows
QE1 == queryEngine(1, 2, 3, 4)
QE2 == queryEngine(5, 6, 7, 8)
SE0 == storageEngine(0, 0, 0, 0)
SE1 == storageEngine(11, 12, 13, 14)

Rows ==
    { Stat(<<"cluster">>, "", "", "", QE1, SE0),
      Stat(<<"cluster", "x">>, "s1", "d1", "t1", QE2, SE1),
      Stat(<<"server", "s1id">>, "s1", "", "", QE2, SE0),
      Stat(<<"table", "t1id">>, "", "d1", "t1", QE1, SE0),
      Stat(<<"table", "t2id">>, "", "d1", "t2", QE2, SE0),
      Stat(<<"table_server", "t1id", "s1id">>, "s1", "d1", "t1", QE1, SE1),
      Stat(<<"bogus">>, "s1", "d1", "t1", QE1, SE1),
      Stat(<< >>, "s1", "d1", "t1", QE1, SE1) }

\* the fields of stat, by their Go names
Fields == {"ID", "Server", "Database", "Table", "QueryEngine", "StorageEngine"}

\* a document of the stats table: the fields it has, and their values
Doc(present, val) == [present |-> present, val |-> val]

\* the document that has every field of the row
FullDoc(r) == Doc(Fields, r)

\* documents that lack fields which the emitter of their kind reads; an
\* absent field is written with its zero value
PartialDocs ==
    { FullDoc(Stat(<<"server", "s1id">>, "s1", "", "", QE2, SE0)),
      Doc({"ID", "QueryEngine"},
          Stat(<<"server", "s2id">>, "", "", "", QE1, SE0)),
      FullDoc(Stat(<<"table", "t1id">>, "", "d1", "t1", QE1, SE0)),
      Doc({"ID", "Database"},
          Stat(<<"table", "t2id">>, "", "d1", "", ZeroStat.QueryEngine, SE0)),
      FullDoc(Stat(<<"table_server", "t1id", "s1id">>, "s1", "d1", "t1", QE1, SE1)),
      Doc({"ID", "Database", "Table", "QueryEngine"},
          Stat(<<"table_server", "t2id", "s2id">>, "", "d1", "t2", QE2, SE0)) }

\* the record that has the fields of the document, and those of rest where
\* the document has none
DecodeOver(rest, doc) ==
    [ID            |-> IF "ID" \in doc.present THEN doc.val.ID ELSE rest.ID,
     Server        |-> IF "Server" \in doc.present THEN doc.val.Server ELSE rest.Server,
     Database      |-> IF "Database" \in doc.present THEN doc.val.Database ELSE rest.Database,
     Table         |-> IF "Table" \in doc.present THEN doc.val.Table ELSE rest.Table,
     QueryEngine   |-> IF "QueryEngine" \in doc.present
                       THEN doc.val.QueryEngine ELSE rest.QueryEngine,
     StorageEngine |-> IF "StorageEngine" \in doc.present
                       THEN doc.val.StorageEngine ELSE rest.StorageEngine]

\* Decode that merges the document into the destination as it is
DecodeMerging(dst, doc) == DecodeOver(dst, doc)

\* cur.Next(&stat) decodes the document into the destination: the driver's
\* Decode sets the destination to its zero value, then the fields the
\* document has
Decode(dst, doc) == DecodeOver(ZeroStat, doc)

\* results of a table info lookup (info.DocCountEstimates)
Estimates == { << >>, <<3, 5, 4>> }

\* prometheus.MustNewConstMetric(desc, GaugeValue, value, labels...)
Metric(desc, value, labels) == [desc |-> desc, value |-> value, labels |-> labels]

\* the loop of SumEstimates with sum = e in place of sum += e
SumEstimatesLast(s) == IF s = << >> THEN 0 ELSE s[Len(s)]

\* sum := 0.0; for _, e := range estimates { sum += e }
RECURSIVE SumEstimates(_)
SumEstimates(s) == IF s = << >> THEN 0 ELSE Head(s) + SumEstimates(Tail(s))

\* ----------------------------------------------------------------- state
VARIABLES
    \* fields of the exporter
    collectTableStats,  \* e.collectTableStats, the argument of New
    tableRowsCount,     \* e.metrics.tableRowsCount != nil (cmd/root.go:182)
    \* locals of each invocation of Collect
    pc,              \* position of the goroutine running Collect
    errcount,        \* errcount of collectRethinkStats
    stat,            \* var stat stat, the destination of cur.Next
    cursor,          \* "none", "open" or "closed"
    curErr,          \* cur.Err() != nil
    tasks,           \* goroutines of the errgroup wg, in spawn order
    ch,              \* samples received from the channel, in send order
    \* history of each invocation
    runCalls,        \* calls of Run on the stats table
    closeCalls,      \* calls of cur.Close
    delivered,       \* calls of cur.Next that returned true
    classified,      \* calls of processStat
    classErrs,       \* calls of processStat that returned an error
    runFailed,       \* Run returned an error
    iterErr,         \* the iteration ended on a cursor error
    errEvents,       \* error events of the cycle, of every kind
    lastDoc,         \* the document the last cur.Next decoded
    \* the database
    feed,            \* names the documents the stats table holds
    limit,           \* largest number of rows of a result set
    content             \* what every cycle reads, when all cycles read the same

exporter == <<collectTableStats, tableRowsCount>>

database == <<feed, limit, content>>

ghosts == <<runCalls, closeCalls, delivered, classified, classErrs,
            runFailed, iterErr, errEvents, lastDoc>>

vars == <<collectTableStats, tableRowsCount, pc, errcount, stat, cursor, curErr,
          tasks, ch, runCalls, closeCalls, delivered, classified, classErrs,
          runFailed, iterErr, errEvents, lastDoc, feed, limit, content>>

Task(db, table) ==
    [dbName |-> db, tableName |-> table, state |-> "running", est |-> << >>, sum |-> 0]

Finished(t) == t.state \in {"done", "failed"}

AnyFailed(c) == \E i \in 1..Len(tasks[c]) : tasks[c][i].state = "failed"

\* initMetrics: the tableRowsCount descriptor is built when row counts are
\* collected, and only then
initMetrics(collect) == collect

\* ------------------------------------------------------------- database
\* every cycle sees whatever the database holds when it asks
FreeData == [kind |-> "free"]

\* result of a table info lookup
LookupOk(est) == [ok |-> TRUE, est |-> est]

LookupError == [ok |-> FALSE, est |-> << >>]

LookupResults == {LookupOk(est) : est \in Estimates} \cup {LookupError}

\* what cur.Next does when it returns true: the document and cur.Err() != nil
Outcome(doc, err) == [doc |-> doc, err |-> err]

RECURSIVE SeqsUpTo(_, _)
SeqsUpTo(S, n) ==
    IF n = 0 THEN {<< >>}
    ELSE SeqsUpTo(S, n - 1) \cup
         {Append(q, x) : q \in {p \in SeqsUpTo(S, n - 1) : Len(p) = n - 1}, x \in S}

PairsOf(D) == {<<d.val.Database, d.val.Table>> : d \in D}

\* the contents the database can have while two cycles read it: the result
\* of Run ("fail", "err" for a cursor with an error, "ok"), the outcomes of
\* the calls of cur.Next that return true, whether the call after them ends
\* the result set or fails, and the result of the lookup of each table
FixedData(D, n) ==
    [kind : {"fixed"}, run : {"fail", "err"}, next : {<< >>}, last : {"end"},
     lookup : {[p \in PairsOf(D) |-> LookupError]}]
    \cup
    [kind : {"fixed"}, run : {"ok"},
     next : SeqsUpTo({Outcome(d, e) : d \in D, e \in BOOLEAN}, n),
     last : {"end", "fail"},
     lookup : [PairsOf(D) -> LookupResults]]

\* the environment's answers, which are free or those of content
EnvRun(o) == IF content.kind = "free" THEN TRUE ELSE content.run = o

EnvNextRow(c, doc, err) ==
    IF content.kind = "free" THEN TRUE
    ELSE /\ delivered[c] < Len(content.next)
         /\ content.next[delivered[c] + 1] = Outcome(doc, err)

EnvNextLast(c, o) ==
    IF content.kind = "free" THEN TRUE
    ELSE /\ delivered[c] = Len(content.next)
         /\ content.last = o

EnvLookup(db, table, res) ==
    IF content.kind = "free" THEN TRUE
    ELSE content.lookup[<<db, table>>] = res

\* documents of SpecTwice
TwiceDocs ==
    { FullDoc(Stat(<<"cluster">>, "", "", "", QE1, SE0)),
      FullDoc(Stat(<<"server", "s1id">>, "s1", "", "", QE2, SE0)),
      FullDoc(Stat(<<"table", "t1id">>, "", "d1", "t1", QE1, SE0)),
      FullDoc(Stat(<<"bogus">>, "s1", "d1", "t1", QE1, SE1)) }

\* documents of SpecConcurrent
ConcurrentDocs ==
    { FullDoc(Stat(<<"table", "t1id">>, "", "d1", "t1", QE1, SE0)),
      FullDoc(Stat(<<"bogus">>, "s1", "d1", "t1", QE1, SE1)) }

\* documents of SpecLive and SpecHang
LiveDocs ==
    { FullDoc(Stat(<<"cluster">>, "", "", "", QE1, SE0)),
      FullDoc(Stat(<<"table", "t1id">>, "", "d1", "t1", QE1, SE0)),
      FullDoc(Stat(<<"table", "t2id">>, "", "d1", "t2", QE2, SE0)),
      FullDoc(Stat(<<"bogus">>, "s1", "d1", "t1", QE1, SE1)) }

\* the documents the stats table can hold, by the name in feed
Docs ==
    CASE feed = "Rows" -> {FullDoc(r) : r \in Rows}
      [] feed = "TwiceDocs" -> TwiceDocs
      [] feed = "ConcurrentDocs" -> ConcurrentDocs
      [] feed = "LiveDocs" -> LiveDocs
      [] feed = "PartialDocs" -> PartialDocs

\* ------------------------------------------------------------------ Init
\* the exporter New returns, no invocation of Collect started
Constructed ==
    /\ collectTableStats \in BOOLEAN
    /\ tableRowsCount = initMetrics(collectTableStats)
    /\ errcount = [c \in Cycles |-> 0]
    /\ stat = [c \in Cycles |-> ZeroStat]
    /\ cursor = [c \in Cycles |-> "none"]
    /\ curErr = [c \in Cycles |-> FALSE]
    /\ tasks = [c \in Cycles |-> << >>]
    /\ ch = [c \in Cycles |-> << >>]
    /\ runCalls = [c \in Cycles |-> 0]
    /\ closeCalls = [c \in Cycles |-> 0]
    /\ delivered = [c \in Cycles |-> 0]
    /\ classified = [c \in Cycles |-> 0]
    /\ classErrs = [c \in Cycles |-> 0]
    /\ runFailed = [c \in Cycles |-> FALSE]
    /\ iterErr = [c \in Cycles |-> FALSE]
    /\ errEvents = [c \in Cycles |-> 0]
    /\ lastDoc = [c \in Cycles |-> FullDoc(ZeroStat)]

\* one invocation of Collect
Init ==
    /\ Constructed
    /\ pc = [c \in Cycles |-> IF c = 1 THEN "start" ELSE "idle"]
    /\ feed = "Rows"
    /\ limit = MaxRecords
    /\ content = FreeData

\* ------------------------------------------------------------- emitters
processClusterStat(s) ==
    << Metric("clusterClientConnections", s.QueryEngine.ClientConnections, << >>),
       Metric("clusterDocsPerSecond", s.QueryEngine.ReadDocsPerSec, <<readOperation>>),
       Metric("clusterDocsPerSecond", s.QueryEngine.WrittenDocsPerSec, <<writtenOperation>>) >>

processServerStat(s) ==
    << Metric("serverClientConnections", s.QueryEngine.ClientConnections, <<s.Server>>),
       Metric("serverDocsPerSecond", s.QueryEngine.ReadDocsPerSec, <<s.Server, readOperation>>),
       Metric("serverDocsPerSecond", s.QueryEngine.WrittenDocsPerSec, <<s.Server, writtenOperation>>),
       Metric("serverQueriesPerSecond", s.QueryEngine.ReadDocsPerSec, <<s.Server>>) >>

\* processTableStat without the test of e.metrics.tableRowsCount
processTableStatAlwaysSpawns(s) ==
    [samples |->
        << Metric("tableDocsPerSecond", s.QueryEngine.ReadDocsPerSec,
                  <<s.Database, s.Table, readOperation>>),
           Metric("tableDocsPerSecond", s.QueryEngine.WrittenDocsPerSec,
                  <<s.Database, s.Table, writtenOperation>>) >>,
     spawn |-> TRUE]

\* processTableStat: the two samples it sends itself, and whether it starts
\* an enrichment goroutine (e.metrics.tableRowsCount != nil)
processTableStat(s) ==
    [samples |->
        << Metric("tableDocsPerSecond", s.QueryEngine.ReadDocsPerSec,
                  <<s.Database, s.Table, readOperation>>),
           Metric("tableDocsPerSecond", s.QueryEngine.WrittenDocsPerSec,
                  <<s.Database, s.Table, writtenOperation>>) >>,
     spawn |-> tableRowsCount]

\* processTableServerStat with the two disk counters exchanged
processTableServerStatSwappedIO(s) ==
    << Metric("tableReplicaDocsPerSecond", s.QueryEngine.ReadDocsPerSec,
              <<s.Database, s.Table, s.Server, readOperation>>),
       Metric("tableReplicaDocsPerSecond", s.QueryEngine.WrittenDocsPerSec,
              <<s.Database, s.Table, s.Server, writtenOperation>>),
       Metric("tableReplicaCacheBytes", s.StorageEngine.InUseBytes,
              <<s.Database, s.Table, s.Server>>),
       Metric("tableReplicaIO", s.StorageEngine.WrittenBytesPerSec,
              <<s.Database, s.Table, s.Server, readOperation>>),
       Metric("tableReplicaIO", s.StorageEngine.ReadBytesPerSec,
              <<s.Database, s.Table, s.Server, writtenOperation>>),
       Metric("tableReplicaDataBytes", s.StorageEngine.DataBytes,
              <<s.Database, s.Table, s.Server>>) >>

processTableServerStat(s) ==
    << Metric("tableReplicaDocsPerSecond", s.QueryEngine.ReadDocsPerSec,
              <<s.Database, s.Table, s.Server, readOperation>>),
       Metric("tableReplicaDocsPerSecond", s.QueryEngine.WrittenDocsPerSec,
              <<s.Database, s.Table, s.Server, writtenOperation>>),
       Metric("tableReplicaCacheBytes", s.StorageEngine.InUseBytes,
              <<s.Database, s.Table, s.Server>>),
       Metric("tableReplicaIO", s.StorageEngine.ReadBytesPerSec,
              <<s.Database, s.Table, s.Server, readOperation>>),
       Metric("tableReplicaIO", s.StorageEngine.WrittenBytesPerSec,
              <<s.Database, s.Table, s.Server, writtenOperation>>),
       Metric("tableReplicaDataBytes", s.StorageEngine.DataBytes,
              <<s.Database, s.Table, s.Server>>) >>

\* processStat whose switch has no default case: an unknown kind returns nil
processStatNoDefault(s) ==
    IF Len(s.ID) = 0
    THEN [err |-> TRUE, samples |-> << >>, spawn |-> FALSE]
    ELSE CASE s.ID[1] = "cluster" ->
                [err |-> FALSE, samples |-> processClusterStat(s), spawn |-> FALSE]
           [] s.ID[1] = "server" ->
                [err |-> FALSE, samples |-> processServerStat(s), spawn |-> FALSE]
           [] s.ID[1] = "table" ->
                [err |-> FALSE, samples |-> processTableStat(s).samples,
                 spawn |-> processTableStat(s).spawn]
           [] s.ID[1] = "table_server" ->
                [err |-> FALSE, samples |-> processTableServerStat(s), spawn |-> FALSE]
           [] OTHER ->
                [err |-> FALSE, samples |-> << >>, spawn |-> FALSE]

\* processStat: the error it returns, the samples it sends and whether it
\* starts an enrichment goroutine
processStat(s) ==
    IF Len(s.ID) = 0
    THEN [err |-> TRUE, samples |-> << >>, spawn |-> FALSE]
    ELSE CASE s.ID[1] = "cluster" ->
                [err |-> FALSE, samples |-> processClusterStat(s), spawn |-> FALSE]
           [] s.ID[1] = "server" ->
                [err |-> FALSE, samples |-> processServerStat(s), spawn |-> FALSE]
           [] s.ID[1] = "table" ->
                [err |-> FALSE, samples |-> processTableStat(s).samples,
                 spawn |-> processTableStat(s).spawn]
           [] s.ID[1] = "table_server" ->
                [err |-> FALSE, samples |-> processTableServerStat(s), spawn |-> FALSE]
           [] OTHER ->
                [err |-> TRUE, samples |-> << >>, spawn |-> FALSE]

\* -------------------------------------------------- collectRethinkStats
\* RunFails without the errcount++
RunFailsUncounted(c) ==
    /\ pc[c] = "start"
    /\ EnvRun("fail")
    /\ pc' = [pc EXCEPT ![c] = "emitErrors"]
    /\ runCalls' = [runCalls EXCEPT ![c] = @ + 1]
    /\ runFailed' = [runFailed EXCEPT ![c] = TRUE]
    /\ errEvents' = [errEvents EXCEPT ![c] = @ + 1]
    /\ UNCHANGED <<exporter, database, errcount, stat, cursor, curErr, tasks, ch,
                   closeCalls, delivered, classified, classErrs, iterErr, lastDoc>>

\* Run returns an error: errcount++ and return, before the defer is set up
RunFails(c) ==
    /\ pc[c] = "start"
    /\ EnvRun("fail")
    /\ errcount' = [errcount EXCEPT ![c] = @ + 1]
    /\ pc' = [pc EXCEPT ![c] = "emitErrors"]
    /\ runCalls' = [runCalls EXCEPT ![c] = @ + 1]
    /\ runFailed' = [runFailed EXCEPT ![c] = TRUE]
    /\ errEvents' = [errEvents EXCEPT ![c] = @ + 1]
    /\ UNCHANGED <<exporter, database, stat, cursor, curErr, tasks, ch,
                   closeCalls, delivered, classified, classErrs, iterErr, lastDoc>>

\* Run returns a cursor, which may already carry an error
RunOk(c) ==
    /\ pc[c] = "start"
    /\ \E e \in BOOLEAN :
          /\ EnvRun(IF e THEN "err" ELSE "ok")
          /\ curErr' = [curErr EXCEPT ![c] = e]
          /\ errEvents' = [errEvents EXCEPT ![c] = @ + (IF e THEN 1 ELSE 0)]
    /\ cursor' = [cursor EXCEPT ![c] = "open"]
    /\ pc' = [pc EXCEPT ![c] = "opened"]
    /\ runCalls' = [runCalls EXCEPT ![c] = @ + 1]
    /\ UNCHANGED <<exporter, database, errcount, stat, tasks, ch, closeCalls,
                   delivered, classified, classErrs, runFailed, iterErr, lastDoc>>

\* the deferred cur.Close(), run by every return after the defer statement
DeferredClose(c) ==
    /\ cursor' = [cursor EXCEPT ![c] = "closed"]
    /\ closeCalls' = [closeCalls EXCEPT ![c] = @ + 1]

\* if cur.Err() != nil right after Run: errcount++ and return
CursorErrAfterOpen(c) ==
    /\ pc[c] = "opened"
    /\ curErr[c]
    /\ errcount' = [errcount EXCEPT ![c] = @ + 1]
    /\ DeferredClose(c)
    /\ pc' = [pc EXCEPT ![c] = "emitErrors"]
    /\ UNCHANGED <<exporter, database, stat, curErr, tasks, ch, runCalls, delivered,
                   classified, classErrs, runFailed, iterErr, errEvents, lastDoc>>

\* no cursor error: wg := &errgroup.Group{} and enter the loop
EnterLoop(c) ==
    /\ pc[c] = "opened"
    /\ ~curErr[c]
    /\ pc' = [pc EXCEPT ![c] = "next"]
    /\ UNCHANGED <<exporter, database, errcount, stat, cursor, curErr, tasks, ch, ghosts>>

\* cur.Next(&stat) returns true: a row was decoded into stat; cur.Err() may
\* report an error nevertheless
NextRow(c) ==
    /\ pc[c] = "next"
    /\ delivered[c] < limit
    /\ \E doc \in Docs : \E e \in BOOLEAN :
          /\ EnvNextRow(c, doc, e)
          /\ stat' = [stat EXCEPT ![c] = Decode(stat[c], doc)]
          /\ lastDoc' = [lastDoc EXCEPT ![c] = doc]
          /\ curErr' = [curErr EXCEPT ![c] = e]
          /\ errEvents' = [errEvents EXCEPT ![c] = @ + (IF e THEN 1 ELSE 0)]
    /\ delivered' = [delivered EXCEPT ![c] = @ + 1]
    /\ pc' = [pc EXCEPT ![c] = "body"]
    /\ UNCHANGED <<exporter, database, errcount, cursor, tasks, ch, runCalls,
                   closeCalls, classified, classErrs, runFailed, iterErr>>

\* cur.Next returns false at the end of the result set: the loop ends
NextEnd(c) ==
    /\ pc[c] = "next"
    /\ EnvNextLast(c, "end")
    /\ pc' = [pc EXCEPT ![c] = "wait"]
    /\ UNCHANGED <<exporter, database, errcount, stat, cursor, curErr, tasks, ch, ghosts>>

\* cur.Next returns false because reading the next row failed: the loop
\* ends the same way, and cur.Err() is not looked at again
NextFails(c) ==
    /\ pc[c] = "next"
    /\ EnvNextLast(c, "fail")
    /\ curErr' = [curErr EXCEPT ![c] = TRUE]
    /\ iterErr' = [iterErr EXCEPT ![c] = TRUE]
    /\ errEvents' = [errEvents EXCEPT ![c] = @ + 1]
    /\ pc' = [pc EXCEPT ![c] = "wait"]
    /\ UNCHANGED <<exporter, database, errcount, stat, cursor, tasks, ch, runCalls,
                   closeCalls, delivered, classified, classErrs, runFailed, lastDoc>>

\* LoopCursorErr as it would be with cur.Close() called at the end of the
\* function instead of deferred
LoopCursorErrNoClose(c) ==
    /\ pc[c] = "body"
    /\ curErr[c]
    /\ errcount' = [errcount EXCEPT ![c] = @ + 1]
    /\ iterErr' = [iterErr EXCEPT ![c] = TRUE]
    /\ pc' = [pc EXCEPT ![c] = "emitErrors"]
    /\ UNCHANGED <<exporter, database, stat, cursor, curErr, tasks, ch, runCalls,
                   closeCalls, delivered, classified, classErrs, runFailed,
                   errEvents, lastDoc>>

\* loop body, cur.Err() != nil: errcount++ and return (no wg.Wait)
LoopCursorErr(c) ==
    /\ pc[c] = "body"
    /\ curErr[c]
    /\ errcount' = [errcount EXCEPT ![c] = @ + 1]
    /\ iterErr' = [iterErr EXCEPT ![c] = TRUE]
    /\ DeferredClose(c)
    /\ pc' = [pc EXCEPT ![c] = "emitErrors"]
    /\ UNCHANGED <<exporter, database, stat, curErr, tasks, ch, runCalls, delivered,
                   classified, classErrs, runFailed, errEvents, lastDoc>>

\* the body of LoopProcessStat: the effects of processStat and of the test
\* of its error on the locals of invocation c
ProcessStatInLoop(c) ==
    /\ LET res == processStat(stat[c]) IN
          /\ ch' = [ch EXCEPT ![c] = @ \o res.samples]
          /\ tasks' = [tasks EXCEPT ![c] =
                          IF res.spawn
                          THEN Append(@, Task(stat[c].Database, stat[c].Table))
                          ELSE @]
          /\ errcount' = [errcount EXCEPT ![c] = @ + (IF res.err THEN 1 ELSE 0)]
          /\ classErrs' = [classErrs EXCEPT ![c] = @ + (IF res.err THEN 1 ELSE 0)]
          /\ errEvents' = [errEvents EXCEPT ![c] = @ + (IF res.err THEN 1 ELSE 0)]
    /\ classified' = [classified EXCEPT ![c] = @ + 1]
    /\ pc' = [pc EXCEPT ![c] = "next"]
    /\ UNCHANGED <<exporter, database, stat, cursor, curErr, runCalls, closeCalls,
                   delivered, runFailed, iterErr, lastDoc>>

\* LoopProcessStat with a group limited to one goroutine (wg.SetLimit(1)):
\* wg.Go blocks while another goroutine of the group is running
LoopProcessStatLimited(c) ==
    /\ pc[c] = "body"
    /\ ~curErr[c]
    /\ processStat(stat[c]).spawn =>
          \A i \in 1..Len(tasks[c]) : Finished(tasks[c][i])
    /\ ProcessStatInLoop(c)

\* LoopProcessStat with errcount kept in a field of the exporter, which all
\* invocations share
LoopProcessStatSharedCount(c) ==
    /\ pc[c] = "body"
    /\ ~curErr[c]
    /\ LET res == processStat(stat[c]) IN
          /\ ch' = [ch EXCEPT ![c] = @ \o res.samples]
          /\ tasks' = [tasks EXCEPT ![c] =
                          IF res.spawn
                          THEN Append(@, Task(stat[c].Database, stat[c].Table))
                          ELSE @]
          /\ errcount' = [d \in Cycles |-> errcount[d] + (IF res.err THEN 1 ELSE 0)]
          /\ classErrs' = [classErrs EXCEPT ![c] = @ + (IF res.err THEN 1 ELSE 0)]
          /\ errEvents' = [errEvents EXCEPT ![c] = @ + (IF res.err THEN 1 ELSE 0)]
    /\ classified' = [classified EXCEPT ![c] = @ + 1]
    /\ pc' = [pc EXCEPT ![c] = "next"]
    /\ UNCHANGED <<exporter, database, stat, cursor, curErr, runCalls, closeCalls,
                   delivered, runFailed, iterErr, lastDoc>>

\* loop body, no cursor error: processStat, errcount++ if it fails
LoopProcessStat(c) ==
    /\ pc[c] = "body"
    /\ ~curErr[c]
    /\ ProcessStatInLoop(c)

\* wg.Wait() returns once every goroutine has returned, with the first
\* error any of them returned: errcount++ once if there is one; return
WaitGroup(c) ==
    /\ pc[c] = "wait"
    /\ \A i \in 1..Len(tasks[c]) : Finished(tasks[c][i])
    /\ errcount' = [errcount EXCEPT ![c] = @ + (IF AnyFailed(c) THEN 1 ELSE 0)]
    /\ DeferredClose(c)
    /\ pc' = [pc EXCEPT ![c] = "emitErrors"]
    /\ UNCHANGED <<exporter, database, stat, curErr, tasks, ch, runCalls, delivered,
                   classified, classErrs, runFailed, iterErr, errEvents, lastDoc>>

\* ------------------------------------------------- enrichment goroutines
\* TaskLookupFails that goes on after the error and sends the empty sum
TaskLookupFailsSendsZero(c, i) ==
    /\ i \in 1..Len(tasks[c])
    /\ tasks[c][i].state = "running"
    /\ EnvLookup(tasks[c][i].dbName, tasks[c][i].tableName, LookupError)
    /\ tasks' = [tasks EXCEPT ![c][i].state = "failed"]
    /\ ch' = [ch EXCEPT ![c] = Append(@, Metric("tableRowsCount", 0,
                                  <<tasks[c][i].dbName, tasks[c][i].tableName>>))]
    /\ errEvents' = [errEvents EXCEPT ![c] = @ + 1]
    /\ UNCHANGED <<exporter, database, pc, errcount, stat, cursor, curErr, runCalls,
                   closeCalls, delivered, classified, classErrs, runFailed, iterErr,
                   lastDoc>>

\* TaskLookupFails whose goroutine blocks after the error instead of
\* returning it to the group
TaskLookupFailsNoReturn(c, i) ==
    /\ i \in 1..Len(tasks[c])
    /\ tasks[c][i].state = "running"
    /\ EnvLookup(tasks[c][i].dbName, tasks[c][i].tableName, LookupError)
    /\ tasks' = [tasks EXCEPT ![c][i].state = "hung"]
    /\ errEvents' = [errEvents EXCEPT ![c] = @ + 1]
    /\ UNCHANGED <<exporter, database, pc, errcount, stat, cursor, curErr, ch, runCalls,
                   closeCalls, delivered, classified, classErrs, runFailed, iterErr,
                   lastDoc>>

\* ReadOne returns an error: the goroutine logs and returns it
TaskLookupFails(c, i) ==
    /\ i \in 1..Len(tasks[c])
    /\ tasks[c][i].state = "running"
    /\ EnvLookup(tasks[c][i].dbName, tasks[c][i].tableName, LookupError)
    /\ tasks' = [tasks EXCEPT ![c][i].state = "failed"]
    /\ errEvents' = [errEvents EXCEPT ![c] = @ + 1]
    /\ UNCHANGED <<exporter, database, pc, errcount, stat, cursor, curErr, ch, runCalls,
                   closeCalls, delivered, classified, classErrs, runFailed, iterErr,
                   lastDoc>>

\* TaskLookupOk whose closure reads stat.Database and stat.Table when it
\* sends, instead of the copies dbName and tableName
TaskLookupOkReadsStat(c, i) ==
    /\ i \in 1..Len(tasks[c])
    /\ tasks[c][i].state = "running"
    /\ \E est \in Estimates :
          /\ EnvLookup(tasks[c][i].dbName, tasks[c][i].tableName, LookupOk(est))
          /\ tasks' = [tasks EXCEPT ![c][i].state = "done", ![c][i].est = est,
                                    ![c][i].sum = SumEstimates(est)]
          /\ ch' = [ch EXCEPT ![c] = Append(@, Metric("tableRowsCount", SumEstimates(est),
                                        <<stat[c].Database, stat[c].Table>>))]
    /\ UNCHANGED <<exporter, database, pc, errcount, stat, cursor, curErr, ghosts>>

\* ReadOne succeeds for the table (dbName, tableName): sum the estimates,
\* send tableRowsCount, return nil
TaskLookupOk(c, i) ==
    /\ i \in 1..Len(tasks[c])
    /\ tasks[c][i].state = "running"
    /\ \E est \in Estimates :
          /\ EnvLookup(tasks[c][i].dbName, tasks[c][i].tableName, LookupOk(est))
          /\ tasks' = [tasks EXCEPT ![c][i].state = "done", ![c][i].est = est,
                                    ![c][i].sum = SumEstimates(est)]
          /\ ch' = [ch EXCEPT ![c] = Append(@, Metric("tableRowsCount", SumEstimates(est),
                                        <<tasks[c][i].dbName, tasks[c][i].tableName>>))]
    /\ UNCHANGED <<exporter, database, pc, errcount, stat, cursor, curErr, ghosts>>

\* ---------------------------------------------------------------- Collect
\* ch <- scrapeErrors
EmitScrapeErrors(c) ==
    /\ pc[c] = "emitErrors"
    /\ ch' = [ch EXCEPT ![c] = Append(@, Metric("scrapeErrors", errcount[c], << >>))]
    /\ pc' = [pc EXCEPT ![c] = "emitLatency"]
    /\ UNCHANGED <<exporter, database, errcount, stat, cursor, curErr, tasks, ghosts>>

\* ch <- scrapeLatency, then Collect returns
EmitScrapeLatency(c) ==
    /\ pc[c] = "emitLatency"
    /\ \E elapsed \in 0..MaxElapsed :
          ch' = [ch EXCEPT ![c] = Append(@, Metric("scrapeLatency", elapsed, << >>))]
    /\ pc' = [pc EXCEPT ![c] = "done"]
    /\ UNCHANGED <<exporter, database, errcount, stat, cursor, curErr, tasks, ghosts>>

\* the registry invokes Collect again once the invocations before have
\* returned
CollectAgain(c) ==
    /\ pc[c] = "idle"
    /\ \A d \in Cycles : d < c => pc[d] = "done"
    /\ pc' = [pc EXCEPT ![c] = "start"]
    /\ UNCHANGED <<exporter, database, errcount, stat, cursor, curErr, tasks, ch, ghosts>>

\* ----------------------------------------------- calls that never return
\* ctx is context.TODO(): it has no deadline and is never cancelled, so
\* nothing ends a call that the database does not answer
RunHangs(c) ==
    /\ pc[c] = "start"
    /\ pc' = [pc EXCEPT ![c] = "hung"]
    /\ runCalls' = [runCalls EXCEPT ![c] = @ + 1]
    /\ UNCHANGED <<exporter, database, errcount, stat, cursor, curErr, tasks, ch,
                   closeCalls, delivered, classified, classErrs, runFailed, iterErr,
                   errEvents, lastDoc>>

NextHangs(c) ==
    /\ pc[c] = "next"
    /\ pc' = [pc EXCEPT ![c] = "hung"]
    /\ UNCHANGED <<exporter, database, errcount, stat, cursor, curErr, tasks, ch, ghosts>>

TaskLookupHangs(c, i) ==
    /\ i \in 1..Len(tasks[c])
    /\ tasks[c][i].state = "running"
    /\ tasks' = [tasks EXCEPT ![c][i].state = "hung"]
    /\ UNCHANGED <<exporter, database, pc, errcount, stat, cursor, curErr, ch, ghosts>>

\* ---------------------------------------------------------- specifications
\* a step of the goroutine that runs Collect
Main(c) ==
    \/ RunFails(c)
    \/ RunOk(c)
    \/ CursorErrAfterOpen(c)
    \/ EnterLoop(c)
    \/ NextRow(c)
    \/ NextEnd(c)
    \/ NextFails(c)
    \/ LoopCursorErr(c)
    \/ LoopProcessStat(c)
    \/ WaitGroup(c)
    \/ EmitScrapeErrors(c)
    \/ EmitScrapeLatency(c)

Next ==
    \/ \E c \in Cycles : RunFails(c)
    \/ \E c \in Cycles : RunOk(c)
    \/ \E c \in Cycles : CursorErrAfterOpen(c)
    \/ \E c \in Cycles : EnterLoop(c)
    \/ \E c \in Cycles : NextRow(c)
    \/ \E c \in Cycles : NextEnd(c)
    \/ \E c \in Cycles : NextFails(c)
    \/ \E c \in Cycles : LoopCursorErr(c)
    \/ \E c \in Cycles : LoopProcessStat(c)
    \/ \E c \in Cycles : WaitGroup(c)
    \/ \E c \in Cycles : \E i \in 1..Len(tasks[c]) : TaskLookupFails(c, i)
    \/ \E c \in Cycles : \E i \in 1..Len(tasks[c]) : TaskLookupOk(c, i)
    \/ \E c \in Cycles : EmitScrapeErrors(c)
    \/ \E c \in Cycles : EmitScrapeLatency(c)

Spec == Init /\ [][Next]_vars

\* two invocations of Collect, the second after the first has returned, over
\* the same content of the database
InitTwice ==
    /\ Constructed
    /\ pc = [c \in Cycles |-> IF c = 1 THEN "start" ELSE "idle"]
    /\ feed = "TwiceDocs"
    /\ limit = MaxRecordsTwice
    /\ content \in FixedData(TwiceDocs, MaxRecordsTwice)

NextTwice ==
    \/ Next
    \/ \E c \in Cycles : CollectAgain(c)

SpecTwice == InitTwice /\ [][NextTwice]_vars

\* two invocations of Collect at the same time
InitConcurrent ==
    /\ Constructed
    /\ pc = [c \in Cycles |-> "start"]
    /\ feed = "ConcurrentDocs"
    /\ limit = MaxRecordsConcurrent
    /\ content = FreeData

SpecConcurrent == InitConcurrent /\ [][Next]_vars

\* one invocation of Collect over documents that lack fields
InitDecode ==
    /\ Constructed
    /\ pc = [c \in Cycles |-> IF c = 1 THEN "start" ELSE "idle"]
    /\ feed = "PartialDocs"
    /\ limit = MaxRecordsDecode
    /\ content = FreeData

SpecDecode == InitDecode /\ [][Next]_vars

InitLive ==
    /\ Constructed
    /\ pc = [c \in Cycles |-> IF c = 1 THEN "start" ELSE "idle"]
    /\ feed = "LiveDocs"
    /\ limit = MaxRecordsLive
    /\ content = FreeData

\* the scheduler runs every goroutine that can take a step, the consumer
\* drains the channel and every database call returns
Fairness ==
    \A c \in Cycles :
        /\ WF_vars(Main(c))
        /\ \A i \in 1..MaxRecordsLive :
              WF_vars(TaskLookupFails(c, i) \/ TaskLookupOk(c, i))

SpecLive == InitLive /\ [][Next]_vars /\ Fairness

\* as Next, with database calls that may never return
NextHang ==
    \/ Next
    \/ \E c \in Cycles : RunHangs(c)
    \/ \E c \in Cycles : NextHangs(c)
    \/ \E c \in Cycles : \E i \in 1..Len(tasks[c]) : TaskLookupHangs(c, i)

\* the scheduler runs every goroutine that can take a step and the consumer
\* drains the channel
FairnessHang ==
    \A c \in Cycles :
        /\ WF_vars(Main(c) \/ RunHangs(c) \/ NextHangs(c))
        /\ \A i \in 1..MaxRecordsLive :
              WF_vars(TaskLookupFails(c, i) \/ TaskLookupOk(c, i) \/ TaskLookupHangs(c, i))

SpecHang == InitLive /\ [][NextHang]_vars /\ FairnessHang

\* ------------------------------------------------------------ properties
MetaDescs == {"scrapeErrors", "scrapeLatency"}

Count(seq, desc) == Cardinality({i \in 1..Len(seq) : seq[i].desc = desc})

\* Collect has got errcount back from collectRethinkStats
Returned(c) == pc[c] \in {"emitErrors", "emitLatency", "done"}

\* the step is a call of processStat in invocation c
ProcessStatStep(c) == classified'[c] = classified[c] + 1

\* the samples sent by the step on the channel of invocation c
Sent(c) == SubSeq(ch'[c], Len(ch[c]) + 1, Len(ch'[c]))

\* C1: a cycle that has finished has written exactly one scrape_errors and
\* exactly one scrape_duration_seconds sample, and at no time does a sample
\* of another family follow one of the two on the channel.
C1_MetaOnceAndLast ==
    \A c \in Cycles :
        /\ pc[c] = "done" =>
              /\ Count(ch[c], "scrapeErrors") = 1
              /\ Count(ch[c], "scrapeLatency") = 1
        /\ \A i \in 1..Len(ch[c]) : \A j \in 1..Len(ch[c]) :
              (i < j /\ ch[c][i].desc \in MetaDescs) => ch[c][j].desc \in MetaDescs

\* C2: once collectRethinkStats has returned, every enrichment goroutine
\* started in the cycle has returned, whether the cursor was exhausted or
\* the loop was left on a cursor error.
C2_TasksFinishedBeforeReturn ==
    \A c \in Cycles :
        Returned(c) => \A i \in 1..Len(tasks[c]) : Finished(tasks[c][i])

\* C3: the error count handed to scrape_errors equals the number of error
\* events of the cycle (failed base query, cursor error, failed
\* classifications, failed enrichment lookups), each counted once.
C3_ErrorsAllCounted ==
    \A c \in Cycles :
        /\ pc[c] = "emitErrors" => errcount[c] = errEvents[c]
        /\ \A i \in 1..Len(ch[c]) :
              ch[c][i].desc = "scrapeErrors" => ch[c][i].value = errcount[c]

\* C4: when the iteration ends on a cursor error, the error count the cycle
\* returns includes one for it on top of the failed classifications, and no
\* record is classified afterwards.
C4_CursorErrorCountedAndStops ==
    /\ [](\A c \in Cycles :
             Returned(c) /\ iterErr[c] => errcount[c] >= classErrs[c] + 1)
    /\ [][\A c \in Cycles : iterErr[c] => classified'[c] = classified[c]]_vars

\* C5: after a failed Run the cycle classifies nothing, starts no goroutine,
\* does not call Run again, and ends having sent exactly scrape_errors = 1
\* and scrape_duration_seconds.
C5_BaseQueryFailure ==
    \A c \in Cycles :
        runFailed[c] =>
            /\ runCalls[c] = 1
            /\ errcount[c] = 1
            /\ delivered[c] = 0 /\ classified[c] = 0
            /\ tasks[c] = << >>
            /\ cursor[c] = "none"
            /\ \A i \in 1..Len(ch[c]) : ch[c][i].desc \in MetaDescs
            /\ pc[c] = "done" =>
                  /\ Len(ch[c]) = 2
                  /\ ch[c][1] = Metric("scrapeErrors", 1, << >>)
                  /\ ch[c][2].desc = "scrapeLatency" /\ ch[c][2].value >= 0

C5_Witness == \E c \in Cycles : runFailed[c] /\ pc[c] = "done" /\ Len(ch[c]) = 2

KnownKinds == {"cluster", "server", "table", "table_server"}

\* the identity tuple is empty or its first element is no known kind
Unrecognized(s) == Len(s.ID) = 0 \/ s.ID[1] \notin KnownKinds

\* C6: classifying a record whose identity tuple is empty or starts with an
\* unknown kind sends no sample, starts no goroutine, adds exactly one to the
\* error count and goes on to the next cur.Next; whenever the loop is at
\* cur.Next or has ended, every record delivered so far has been classified.
C6_UnrecognizedRecord ==
    /\ [][\A c \in Cycles :
             (ProcessStatStep(c) /\ Unrecognized(stat[c])) =>
                /\ ch'[c] = ch[c]
                /\ tasks'[c] = tasks[c]
                /\ errcount'[c] = errcount[c] + 1
                /\ pc'[c] = "next"]_vars
    /\ [](\A c \in Cycles :
             pc[c] \in {"next", "wait"} => classified[c] = delivered[c])

\* a record was rejected and a later record of the same cycle was classified
C6_Witness ==
    \E c \in Cycles :
        /\ pc[c] = "next"
        /\ classErrs[c] >= 1
        /\ classified[c] = classErrs[c] + 1
        /\ ~Unrecognized(stat[c])
        /\ Len(ch[c]) > 0

TablePairs == {<<r.Database, r.Table>> : r \in Rows}

TasksIn(c, pair, state) ==
    {i \in 1..Len(tasks[c]) :
        /\ tasks[c][i].state = state
        /\ <<tasks[c][i].dbName, tasks[c][i].tableName>> = pair}

RowsCountSamples(c, pair) ==
    {i \in 1..Len(ch[c]) : ch[c][i].desc = "tableRowsCount" /\ ch[c][i].labels = pair}

\* the step is the failure of the lookup of goroutine i of invocation c
LookupFailsStep(c, i) ==
    /\ i \in 1..Len(tasks[c])
    /\ tasks[c][i].state = "running"
    /\ Len(tasks'[c]) = Len(tasks[c])
    /\ tasks'[c][i].state = "failed"

\* C7: for every (database, table) the channel holds exactly one
\* table_rows_count sample per goroutine of that table whose lookup succeeded
\* and none for those whose lookup failed; a failing lookup sends nothing and
\* changes neither another goroutine nor the main loop; and when the loop
\* waits for goroutines that have all returned, some failed, it goes on.
C7_EnrichmentIsolation ==
    /\ [](\A c \in Cycles : \A pair \in TablePairs :
             Cardinality(RowsCountSamples(c, pair)) = Cardinality(TasksIn(c, pair, "done")))
    /\ [][\A c \in Cycles : \A i \in 1..Len(tasks[c]) : LookupFailsStep(c, i) =>
             /\ ch' = ch
             /\ pc' = pc
             /\ \A j \in 1..Len(tasks[c]) : j # i => tasks'[c][j] = tasks[c][j]]_vars
    /\ [](\A c \in Cycles :
             pc[c] = "wait" /\ (\A i \in 1..Len(tasks[c]) : Finished(tasks[c][i]))
                => ENABLED WaitGroup(c))

\* one lookup failed, the lookup of another table succeeded, the cycle ended
C7_Witness ==
    \E c \in Cycles :
        /\ pc[c] = "done"
        /\ \E i \in 1..Len(tasks[c]) : \E j \in 1..Len(tasks[c]) :
              /\ tasks[c][i].state = "failed"
              /\ tasks[c][j].state = "done"
              /\ tasks[c][i].tableName # tasks[c][j].tableName
              /\ RowsCountSamples(c, <<tasks[c][i].dbName, tasks[c][i].tableName>>) = {}
              /\ Cardinality(RowsCountSamples(c, <<tasks[c][j].dbName,
                                                   tasks[c][j].tableName>>)) = 1

\* C8: cur.Close is never called before collectRethinkStats returns nor more
\* than once; when it has returned after a successful Run, Close has been
\* called exactly once, whichever way the function was left.
C8_CursorClosedOnce ==
    \A c \in Cycles :
        /\ closeCalls[c] <= 1
        /\ ~Returned(c) => closeCalls[c] = 0
        /\ (Returned(c) /\ ~runFailed[c]) => (closeCalls[c] = 1 /\ cursor[c] = "closed")
        /\ (Returned(c) /\ runFailed[c]) => (closeCalls[c] = 0 /\ cursor[c] = "none")

\* the loop was left on a cursor error after rows had been read
C8_Witness ==
    \E c \in Cycles :
        pc[c] = "done" /\ iterErr[c] /\ delivered[c] >= 2 /\ closeCalls[c] = 1

Kind(s) == IF Len(s.ID) = 0 THEN "" ELSE s.ID[1]

\* C9: of the samples sent for a server record, server_queries_per_sec has
\* the value of the QPS counter and server_client_connections that of the
\* client connections counter, both labelled with the server name.
C9_ServerQueriesPerSec ==
    [][\A c \in Cycles :
          (ProcessStatStep(c) /\ Kind(stat[c]) = "server") =>
             \A k \in 1..Len(Sent(c)) :
                /\ Sent(c)[k].desc = "serverQueriesPerSecond" =>
                      /\ Sent(c)[k].value = stat[c].QueryEngine.QPS
                      /\ Sent(c)[k].labels = <<stat[c].Server>>
                /\ Sent(c)[k].desc = "serverClientConnections" =>
                      /\ Sent(c)[k].value = stat[c].QueryEngine.ClientConnections
                      /\ Sent(c)[k].labels = <<stat[c].Server>>]_vars

\* the sequence has exactly one sample of the family labelled base + read
\* with the value rd and exactly one labelled base + written with wr, and no
\* other sample of the family
ReadWrittenPair(seq, desc, base, rd, wr) ==
    /\ Count(seq, desc) = 2
    /\ \E i \in 1..Len(seq) : seq[i] = Metric(desc, rd, Append(base, readOperation))
    /\ \E i \in 1..Len(seq) : seq[i] = Metric(desc, wr, Append(base, writtenOperation))

\* C10: the families and the number of samples processStat sends for a record
\* follow from the first identity element alone: cluster 1 + 2 with no
\* server, database or table label, server 1 + 1 + 2, table 2, table_server
\* 2 + 1 + 2 + 1; every read/written pair has the read counter under read and
\* the written counter under written.
C10_SamplesByKind ==
    [][\A c \in Cycles : ProcessStatStep(c) =>
          LET s == stat[c]
              qe == s.QueryEngine
              se == s.StorageEngine
              dts == <<s.Database, s.Table, s.Server>>
              sent == Sent(c)
          IN
          /\ Kind(s) = "cluster" =>
                /\ Len(sent) = 3
                /\ Count(sent, "clusterClientConnections") = 1
                /\ ReadWrittenPair(sent, "clusterDocsPerSecond", << >>,
                                   qe.ReadDocsPerSec, qe.WrittenDocsPerSec)
                /\ \A k \in 1..Len(sent) :
                      sent[k].labels \in {<< >>, <<readOperation>>, <<writtenOperation>>}
          /\ Kind(s) = "server" =>
                /\ Len(sent) = 4
                /\ Count(sent, "serverClientConnections") = 1
                /\ Count(sent, "serverQueriesPerSecond") = 1
                /\ ReadWrittenPair(sent, "serverDocsPerSecond", <<s.Server>>,
                                   qe.ReadDocsPerSec, qe.WrittenDocsPerSec)
          /\ Kind(s) = "table" =>
                /\ Len(sent) = 2
                /\ ReadWrittenPair(sent, "tableDocsPerSecond", <<s.Database, s.Table>>,
                                   qe.ReadDocsPerSec, qe.WrittenDocsPerSec)
          /\ Kind(s) = "table_server" =>
                /\ Len(sent) = 6
                /\ ReadWrittenPair(sent, "tableReplicaDocsPerSecond", dts,
                                   qe.ReadDocsPerSec, qe.WrittenDocsPerSec)
                /\ Count(sent, "tableReplicaCacheBytes") = 1
                /\ ReadWrittenPair(sent, "tableReplicaIO", dts,
                                   se.ReadBytesPerSec, se.WrittenBytesPerSec)
                /\ Count(sent, "tableReplicaDataBytes") = 1]_vars

\* a cluster record that carries server, database and table names and a
\* table_server record have both been classified
C10_Witness ==
    \E c \in Cycles :
        /\ pc[c] = "next"
        /\ Kind(stat[c]) = "cluster" /\ stat[c].Server # "" /\ stat[c].Table # ""
        /\ Count(ch[c], "clusterClientConnections") = 1
        /\ Count(ch[c], "tableReplicaIO") = 2

\* the step is the successful return of the lookup of goroutine i of
\* invocation c
LookupOkStep(c, i) ==
    /\ i \in 1..Len(tasks[c])
    /\ tasks[c][i].state = "running"
    /\ Len(tasks'[c]) = Len(tasks[c])
    /\ tasks'[c][i].state = "done"

\* the arithmetic sum of a sequence of naturals, by counting units
ArithSum(s) == Cardinality(UNION {{<<k, u>> : u \in 1..s[k]} : k \in 1..Len(s)})

\* C11: a successful enrichment fetch sends exactly one sample: it is of
\* table_rows_count, its value is the arithmetic sum of the estimates the
\* lookup returned (0 for none, 12 for 3, 5, 4) and its labels are the
\* database and the table of the fetch.
C11_RowsCountIsSum ==
    [][\A c \in Cycles : \A i \in 1..Len(tasks[c]) : LookupOkStep(c, i) =>
          LET est == tasks'[c][i].est IN
          /\ Len(Sent(c)) = 1
          /\ Sent(c)[1].desc = "tableRowsCount"
          /\ Sent(c)[1].labels = <<tasks[c][i].dbName, tasks[c][i].tableName>>
          /\ Sent(c)[1].value = ArithSum(est)
          /\ est = << >> => Sent(c)[1].value = 0
          /\ est = <<3, 5, 4>> => Sent(c)[1].value = 12]_vars

\* one fetch returned 3, 5, 4 and another returned no estimate
C11_Witness ==
    \E c \in Cycles : \E i \in 1..Len(tasks[c]) : \E j \in 1..Len(tasks[c]) :
        /\ tasks[c][i].state = "done" /\ tasks[c][i].est = <<3, 5, 4>>
        /\ tasks[c][j].state = "done" /\ tasks[c][j].est = << >>
        /\ tasks[c][i].tableName # tasks[c][j].tableName
        /\ \E k \in 1..Len(ch[c]) :
              ch[c][k] = Metric("tableRowsCount", 12,
                                <<tasks[c][i].dbName, tasks[c][i].tableName>>)
        /\ \E k \in 1..Len(ch[c]) :
              ch[c][k] = Metric("tableRowsCount", 0,
                                <<tasks[c][j].dbName, tasks[c][j].tableName>>)

\* C12: whether row counts are collected is set when the exporter is
\* constructed and never changes; when it is off no goroutine is ever started
\* and no table_rows_count sample is ever sent; when it is on, classifying a
\* table record starts exactly one goroutine, for that record's database and
\* table, and classifying any other record starts none; nothing else starts
\* goroutines.
C12_RowsCountFixedAtConstruction ==
    /\ [][collectTableStats' = collectTableStats /\ tableRowsCount' = tableRowsCount]_vars
    /\ [](tableRowsCount = collectTableStats)
    /\ [](~collectTableStats =>
             \A c \in Cycles : tasks[c] = << >> /\ Count(ch[c], "tableRowsCount") = 0)
    /\ [][\A c \in Cycles : ProcessStatStep(c) =>
             IF collectTableStats /\ Kind(stat[c]) = "table"
             THEN tasks'[c] = Append(tasks[c], Task(stat[c].Database, stat[c].Table))
             ELSE tasks'[c] = tasks[c]]_vars
    /\ [][\A c \in Cycles : Len(tasks'[c]) # Len(tasks[c]) => ProcessStatStep(c)]_vars

\* with row counts on, three records were classified, two of them table
\* records, and two goroutines were started
C12_Witness ==
    \E c \in Cycles :
        /\ collectTableStats
        /\ classified[c] = 3
        /\ classErrs[c] = 0
        /\ Len(tasks[c]) = 2
        /\ Kind(stat[c]) # "table"

\* the samples of a channel that are not of the two meta families
DataSamples(seq) == SelectSeq(seq, LAMBDA m : m.desc \notin MetaDescs)

Occurrences(seq, m) == Cardinality({k \in 1..Len(seq) : seq[k] = m})

SameMultiset(a, b) ==
    \A m \in {a[k] : k \in 1..Len(a)} \cup {b[k] : k \in 1..Len(b)} :
        Occurrences(a, m) = Occurrences(b, m)

\* C13: when Collect has run twice, one invocation after the other, over the
\* same content of the database, the two invocations have sent the same
\* multiset of samples of the families other than scrape_errors and
\* scrape_duration_seconds.
C13_SameSamplesTwice ==
    (pc[1] = "done" /\ pc[2] = "done") =>
        SameMultiset(DataSamples(ch[1]), DataSamples(ch[2]))

\* C14: an invocation of Collect reaches Done also when a database call of
\* it (Run, cur.Next or a table lookup) never returns: the cancellation of
\* its context ends the call instead of the invocation waiting for ever.
C14_CancellationEndsCycle ==
    \A c \in Cycles : (pc[c] = "start") ~> (pc[c] = "done")

\* C15: when the consumer takes every sample and every database call
\* returns, an invocation of Collect that has started reaches Done, and in
\* the end every goroutine it started has returned: the main loop and the
\* goroutines never wait for each other for ever.
C15_CycleTerminates ==
    /\ \A c \in Cycles : (pc[c] = "start") ~> (pc[c] = "done")
    /\ <>[](\A c \in Cycles :
               /\ pc[c] \in {"idle", "done"}
               /\ \A i \in 1..Len(tasks[c]) : Finished(tasks[c][i]))

\* an invocation has ended after waiting for two goroutines, one of which
\* failed
C15_Witness ==
    \E c \in Cycles :
        /\ pc[c] = "done"
        /\ ~iterErr[c]
        /\ Len(tasks[c]) = 2
        /\ \E i \in 1..2 : tasks[c][i].state = "failed"
        /\ \E i \in 1..2 : tasks[c][i].state = "done"

\* the record made of the document's own fields, with the zero value for the
\* fields it lacks
OwnFields(doc) ==
    [f \in Fields |-> IF f \in doc.present THEN doc.val[f] ELSE ZeroStat[f]]

C17_TaskKeepsItsPair ==
    /\ [][\A c \in Cycles : \A i \in Len(tasks[c]) + 1..Len(tasks'[c]) :
             /\ ProcessStatStep(c)
             /\ Kind(stat[c]) = "table"
             /\ <<tasks'[c][i].dbName, tasks'[c][i].tableName>> =
                   <<stat[c].Database, stat[c].Table>>]_vars
    /\ [][\A c \in Cycles : \A i \in 1..Len(tasks[c]) :
             <<tasks'[c][i].dbName, tasks'[c][i].tableName>> =
                <<tasks[c][i].dbName, tasks[c][i].tableName>>]_vars
    /\ [][\A c \in Cycles : \A i \in 1..Len(tasks[c]) : LookupOkStep(c, i) =>
             /\ Len(Sent(c)) = 1
             /\ Sent(c)[1].labels = <<tasks[c][i].dbName, tasks[c][i].tableName>>]_vars

\* the goroutine of table t1 sent its sample after the loop had decoded and
\* classified a cluster record
C17_Witness ==
    \E c \in Cycles :
        /\ Len(tasks[c]) = 1
        /\ tasks[c][1].state = "done"
        /\ <<tasks[c][1].dbName, tasks[c][1].tableName>> = <<"d1", "t1">>
        /\ classified[c] = 2
        /\ Kind(stat[c]) = "cluster"
        /\ <<stat[c].Database, stat[c].Table>> # <<"d1", "t1">>
        /\ \E k \in 1..Len(ch[c]) : \E n \in 1..Len(ch[c]) :
              /\ k < n
              /\ ch[c][k].desc = "clusterClientConnections"
              /\ ch[c][n].desc = "tableRowsCount"
              /\ ch[c][n].labels = <<"d1", "t1">>

\* the goroutines of invocation c that have not returned
InFlight(c) == {i \in 1..Len(tasks[c]) : ~Finished(tasks[c][i])}

\* C18: a record waiting to be classified can be classified whatever the
\* goroutines started before are doing, a table record among them: the step
\* leaves those goroutines as they are and, for a table record, adds one more
\* to those in flight. Nothing bounds the number in flight but the number of
\* table records classified.
C18_SpawnNeverBlocks ==
    /\ [](\A c \in Cycles : (pc[c] = "body" /\ ~curErr[c]) => ENABLED LoopProcessStat(c))
    /\ [][\A c \in Cycles : ProcessStatStep(c) =>
             /\ \A i \in 1..Len(tasks[c]) : tasks'[c][i] = tasks[c][i]
             /\ (collectTableStats /\ Kind(stat[c]) = "table") =>
                   Cardinality(InFlight(c))' = Cardinality(InFlight(c)) + 1]_vars

\* every record of the cursor was a table record, each has been classified
\* and the goroutines of all of them are in flight at the same time
C18_Witness ==
    \E c \in Cycles :
        /\ pc[c] = "next"
        /\ classified[c] = limit
        /\ Len(tasks[c]) = limit
        /\ Cardinality(InFlight(c)) = limit
        /\ Count(ch[c], "tableDocsPerSecond") = 2 * limit

\* C19: with two invocations of Collect running at the same time, the error
\* count of an invocation changes only in a step of that invocation's own
\* main loop, never in a step of a goroutine or of the other invocation; it
\* never exceeds the number of that invocation's own errors and is the value
\* of that invocation's scrape_errors sample; and an invocation at wg.Wait
\* goes on as soon as its own goroutines have returned, whatever those of the
\* other are doing.
C19_CyclesDoNotInterfere ==
    /\ [][\A c \in Cycles : errcount'[c] # errcount[c] =>
             /\ pc'[c] # pc[c]
             /\ tasks' = tasks
             /\ \A d \in Cycles \ {c} : errcount'[d] = errcount[d]]_vars
    /\ [][\A c \in Cycles : \A i \in 1..Len(tasks[c]) :
             (LookupFailsStep(c, i) \/ LookupOkStep(c, i)) => errcount' = errcount]_vars
    /\ [](\A c \in Cycles :
             /\ errcount[c] <= errEvents[c]
             /\ \A k \in 1..Len(ch[c]) :
                   ch[c][k].desc = "scrapeErrors" => ch[c][k].value = errcount[c])
    /\ [](\A c \in Cycles :
             (pc[c] = "wait" /\ \A i \in 1..Len(tasks[c]) : Finished(tasks[c][i]))
                => ENABLED WaitGroup(c))

\* one invocation has waited for its goroutine, which failed, and has sent
\* scrape_errors = 1, while the other is at wg.Wait with no error and its
\* goroutine still running
C19_Witness ==
    \E c \in Cycles : \E d \in Cycles \ {c} :
        /\ pc[c] = "done"
        /\ ~iterErr[c]
        /\ Len(tasks[c]) = 1 /\ tasks[c][1].state = "failed"
        /\ errcount[c] = 1
        /\ \E k \in 1..Len(ch[c]) : ch[c][k] = Metric("scrapeErrors", 1, << >>)
        /\ pc[d] = "wait"
        /\ Len(tasks[d]) = 1 /\ tasks[d][1].state = "running"
        /\ errcount[d] = 0

====
